---- MODULE Spec2Model ----
(***************************************************************************)
(* Bubble Popper: the game screen component of src/GameScreen.js as a      *)
(* state machine.  The React state cells, the refs, the JavaScript timer   *)
(* table and the responder of the game area are the state; every button    *)
(* press, gesture event and timer callback is one action that runs its     *)
(* handler to completion, state updaters and effects included.             *)
(***************************************************************************)
EXTENDS Integers, Sequences, FiniteSets, TLC

(* ------------------------------ bounds --------------------------------- *)
\* Half of the window width reported by Dimensions.get('window').
HalfWidth == 100
\* Window height; small, so that a bubble leaves the top after a few frames.
ScreenHeight == 44
\* Spawning stops once bubbleIdRef exceeds this id.
MaxBubbleId == 2
\* Size of the pool of timer handles.
MaxHandles == 4

(* ------------------------- program constants --------------------------- *)
screenWidth == 2 * HalfWidth
screenHeight == ScreenHeight
gunWidth == 60
TAP_MAX_DURATION == 200
TAP_MAX_MOVEMENT == 10
radius == 30
InitialTime == 120

(* --------------------------- input domains ----------------------------- *)
\* Values of Math.random() * maxX that are enumerated: 30 puts the centre of
\* a bubble exactly one radius from the leftmost laser, 120 under the
\* rightmost laser.
SpawnXs == {30, 120}
\* Touch coordinates: far left of the screen, inside it, far right of it.
GestureXs == {0 - 50, HalfWidth + 20, screenWidth + 50}
\* Distance between the x of the end event and the x of the start event.
EndOffsets == {5, 10}
\* Date.now() at the start of a gesture, and the elapsed time at its end.
GrantTimes == {1000}
Durations == {150, 200}

VARIABLES
  gameStarted, gameOver, score, timeLeft, bubbles, laserVisible, gunPosition,
  tapStartTime, tapStartX, bubbleIdRef, timerRef, bubbleTimerRef,
  laserTimeoutRef,
  intervals,      \* the active setInterval timers: records [id, kind]
  timeouts,       \* the ids of the pending setTimeout timers
  moveInterval,   \* the motion effect's interval is active
  touch,          \* "up", "down" (no responder) or "responder" (the game area)
  ticks,          \* history: countdown callbacks run since the last startGame
  culled,         \* history: bubbles the motion filter dropped since then
  lastX,          \* history: x of the last handled gesture start or move
  ev,             \* history: the gesture end of the last step, if any
  gunInitialX,    \* simple-drag screen: the ref the drag handlers share
  dragFrom,       \* history: gunPosition when the last drag began
  dragDx,         \* history: gestureState.dx of the last move
  dragEv          \* history: "grant", "move" or "release" of the last step

vars == <<gameStarted, gameOver, score, timeLeft, bubbles, laserVisible,
          gunPosition, tapStartTime, tapStartX, bubbleIdRef, timerRef,
          bubbleTimerRef, laserTimeoutRef, intervals, timeouts, moveInterval,
          touch, ticks, culled, lastX, ev, gunInitialX, dragFrom, dragDx,
          dragEv>>

\* The state of the drag handlers of the simple-drag screen.
dragVars == <<gunInitialX, dragFrom, dragDx, dragEv>>

(* ------------------------------ helpers -------------------------------- *)
Max(a, b) == IF a >= b THEN a ELSE b
Min(a, b) == IF a <= b THEN a ELSE b
Abs(a) == IF a >= 0 THEN a ELSE 0 - a

NoEv == [kind |-> "none", fires |-> 0, hits |-> 0]
GestureEv(k) == [kind |-> k, fires |-> 0, hits |-> 0]

\* The smallest handle that is not in use.
NewHandle(used) == CHOOSE h \in 1..(MaxHandles + 2) :
                     h \notin used /\ \A k \in 1..(h - 1) : k \in used
IntervalIds == {t.id : t \in intervals}
clearInterval(set, id) == {t \in set : t.id # id}

Running_StartedOnly(gs, go) == gs

\* gameStarted && !gameOver
Running(gs, go) == gs /\ ~go

\* const gunCenterX = gunPosition + gunWidth / 2
gunCenterX(pos) == pos + gunWidth \div 2

clampGun_NoUpper(newX) == Max(0, newX)

\* Math.max(0, Math.min(newX, screenWidth - gunWidth))
clampGun(newX) == Max(0, Min(newX, screenWidth - gunWidth))

(* ------------------------------ checkHits ------------------------------ *)
isHit_Strict(bubble, laserX) ==
  Abs((bubble.x + bubble.radius) - laserX) < bubble.radius

isHit(bubble, laserX) ==
  Abs((bubble.x + bubble.radius) - laserX) <= bubble.radius

hitBubbleIds(prevBubbles, laserX) ==
  {prevBubbles[i].id : i \in {j \in 1..Len(prevBubbles) :
                                 isHit(prevBubbles[j], laserX)}}

hitCount_One(prevBubbles, laserX) ==
  IF \E j \in 1..Len(prevBubbles) : isHit(prevBubbles[j], laserX)
  THEN 1 ELSE 0

hitCount(prevBubbles, laserX) ==
  Cardinality({j \in 1..Len(prevBubbles) : isHit(prevBubbles[j], laserX)})

IdNotHit(ids, bubble) == bubble.id \notin ids

checkHits(prevBubbles, laserX) ==
  LET ids == hitBubbleIds(prevBubbles, laserX)
      keep(bubble) == IdNotHit(ids, bubble)
  IN  SelectSeq(prevBubbles, keep)

(* ------------------------------- motion -------------------------------- *)
moveUp(bubble) == [bubble EXCEPT !.y = bubble.y - 2]
onScreen_Inclusive(bubble) == bubble.y >= 0 - 60
onScreen(bubble) == bubble.y > 0 - 60
moveBubbles(prev) ==
  SelectSeq([i \in 1..Len(prev) |-> moveUp(prev[i])], onScreen)

motionEffect_StartedOnly(gs, go) == gs

\* The motion effect after a commit: its interval exists iff the round runs.
motionEffect(gs, go) == Running(gs, go)

(* ------------------------------- Init ---------------------------------- *)
Init ==
  /\ gameStarted = FALSE
  /\ gameOver = FALSE
  /\ score = 0
  /\ timeLeft = InitialTime
  /\ bubbles = <<>>
  /\ laserVisible = FALSE
  /\ gunPosition = screenWidth \div 2 - gunWidth \div 2
  /\ tapStartTime = 0
  /\ tapStartX = 0
  /\ bubbleIdRef = 1
  /\ timerRef = 0
  /\ bubbleTimerRef = 0
  /\ laserTimeoutRef = 0
  /\ intervals = {}
  /\ timeouts = {}
  /\ moveInterval = FALSE
  /\ touch = "up"
  /\ ticks = 0
  /\ culled = 0
  /\ lastX = 0
  /\ ev = NoEv
  /\ gunInitialX = gunPosition
  /\ dragFrom = gunPosition
  /\ dragDx = 0
  /\ dragEv = "none"

(* ------------------------- startGame, resetGame ------------------------ *)
startGame ==
  /\ gameStarted' = TRUE
  /\ gameOver' = FALSE
  /\ score' = 0
  /\ timeLeft' = InitialTime
  /\ bubbles' = <<>>
  /\ laserVisible' = FALSE
  /\ bubbleIdRef' = 1
  /\ LET a == NewHandle(IntervalIds)
         b == NewHandle(IntervalIds \cup {a})
     IN  /\ bubbleTimerRef' = a
         /\ timerRef' = b
         /\ intervals' = intervals \cup {[id |-> a, kind |-> "spawn"],
                                         [id |-> b, kind |-> "countdown"]}
  /\ moveInterval' = motionEffect(TRUE, FALSE)
  /\ ticks' = 0
  /\ culled' = 0
  /\ ev' = NoEv
  /\ UNCHANGED <<gunPosition, tapStartTime, tapStartX, laserTimeoutRef,
                 timeouts, touch, lastX>>

resetGame_KeepsBubbles ==
  /\ gameStarted' = FALSE
  /\ gameOver' = FALSE
  /\ score' = 0
  /\ timeLeft' = InitialTime
  /\ laserVisible' = FALSE
  /\ bubbleIdRef' = 1
  /\ intervals' = clearInterval(clearInterval(intervals, timerRef),
                                bubbleTimerRef)
  /\ moveInterval' = motionEffect(FALSE, FALSE)
  /\ ev' = NoEv
  /\ UNCHANGED <<bubbles, gunPosition, tapStartTime, tapStartX, timerRef,
                 bubbleTimerRef, laserTimeoutRef, timeouts, touch, ticks,
                 culled, lastX>>

resetGame_Recentres ==
  /\ gameStarted' = FALSE
  /\ gameOver' = FALSE
  /\ bubbles' = <<>>
  /\ score' = 0
  /\ timeLeft' = InitialTime
  /\ laserVisible' = FALSE
  /\ bubbleIdRef' = 1
  /\ gunPosition' = screenWidth \div 2 - gunWidth \div 2
  /\ intervals' = clearInterval(clearInterval(intervals, timerRef),
                                bubbleTimerRef)
  /\ moveInterval' = motionEffect(FALSE, FALSE)
  /\ ev' = NoEv
  /\ UNCHANGED <<tapStartTime, tapStartX, timerRef, bubbleTimerRef,
                 laserTimeoutRef, timeouts, touch, ticks, culled, lastX>>

resetGame_KeepsStarted ==
  /\ gameStarted' = gameStarted
  /\ gameOver' = FALSE
  /\ bubbles' = <<>>
  /\ score' = 0
  /\ timeLeft' = InitialTime
  /\ laserVisible' = FALSE
  /\ bubbleIdRef' = 1
  /\ intervals' = clearInterval(clearInterval(intervals, timerRef),
                                bubbleTimerRef)
  /\ moveInterval' = motionEffect(gameStarted, FALSE)
  /\ ev' = NoEv
  /\ UNCHANGED <<gunPosition, tapStartTime, tapStartX, timerRef,
                 bubbleTimerRef, laserTimeoutRef, timeouts, touch, ticks,
                 culled, lastX>>

resetGame ==
  /\ gameStarted' = FALSE
  /\ gameOver' = FALSE
  /\ bubbles' = <<>>
  /\ score' = 0
  /\ timeLeft' = InitialTime
  /\ laserVisible' = FALSE
  /\ bubbleIdRef' = 1
  /\ intervals' = clearInterval(clearInterval(intervals, timerRef),
                                bubbleTimerRef)
  /\ moveInterval' = motionEffect(FALSE, FALSE)
  /\ ev' = NoEv
  /\ UNCHANGED <<gunPosition, tapStartTime, tapStartX, timerRef,
                 bubbleTimerRef, laserTimeoutRef, timeouts, touch, ticks,
                 culled, lastX>>

\* The Start Game overlay is rendered only before a round.
PressStart ==
  /\ UNCHANGED dragVars
  /\ ~gameStarted /\ ~gameOver
  /\ touch = "up"
  /\ startGame

\* The Game Over overlay with Play Again is rendered only when gameOver.
PressPlayAgain ==
  /\ UNCHANGED dragVars
  /\ gameOver
  /\ touch = "up"
  /\ resetGame

(* ---------------------------- timer callbacks -------------------------- *)
spawnBubble_NoIncrement(x) ==
  /\ bubbles' = Append(bubbles, [id |-> bubbleIdRef, x |-> x,
                                 y |-> screenHeight - 100, radius |-> radius])
  /\ bubbleIdRef' = bubbleIdRef

\* id: bubbleIdRef.current++
spawnBubble(x) ==
  /\ bubbles' = Append(bubbles, [id |-> bubbleIdRef, x |-> x,
                                 y |-> screenHeight - 100, radius |-> radius])
  /\ bubbleIdRef' = bubbleIdRef + 1

SpawnTick ==
  /\ UNCHANGED dragVars
  /\ \E t \in intervals : t.kind = "spawn"
  /\ bubbleIdRef <= MaxBubbleId
  /\ \E x \in SpawnXs : spawnBubble(x)
  /\ ev' = NoEv
  /\ UNCHANGED <<gameStarted, gameOver, score, timeLeft, laserVisible,
                 gunPosition, tapStartTime, tapStartX, timerRef,
                 bubbleTimerRef, laserTimeoutRef, intervals, timeouts,
                 moveInterval, touch, ticks, culled, lastX>>

countdownExpired_Late(prev) == prev <= 0

countdownExpired_Early(prev) == prev <= 2

\* prev <= 1: the round is over
countdownExpired(prev) == prev <= 1

CountdownTick ==
  /\ UNCHANGED dragVars
  /\ \E t \in intervals : t.kind = "countdown"
  /\ IF countdownExpired(timeLeft)
     THEN /\ intervals' = clearInterval(clearInterval(intervals, timerRef),
                                        bubbleTimerRef)
          /\ gameOver' = TRUE
          /\ timeLeft' = 0
          /\ moveInterval' = motionEffect(gameStarted, TRUE)
     ELSE /\ timeLeft' = timeLeft - 1
          /\ UNCHANGED <<intervals, gameOver, moveInterval>>
  /\ ticks' = Min(ticks + 1, InitialTime + 1)
  /\ ev' = NoEv
  /\ UNCHANGED <<gameStarted, score, bubbles, laserVisible, gunPosition,
                 tapStartTime, tapStartX, bubbleIdRef, timerRef,
                 bubbleTimerRef, laserTimeoutRef, timeouts, touch, culled,
                 lastX>>

MotionTick ==
  /\ UNCHANGED dragVars
  /\ moveInterval
  /\ bubbles' = moveBubbles(bubbles)
  /\ culled' = culled + (Len(bubbles) - Len(bubbles'))
  /\ ev' = NoEv
  /\ UNCHANGED <<gameStarted, gameOver, score, timeLeft, laserVisible,
                 gunPosition, tapStartTime, tapStartX, bubbleIdRef, timerRef,
                 bubbleTimerRef, laserTimeoutRef, intervals, timeouts,
                 moveInterval, touch, ticks, lastX>>

\* () => setLaserVisible(false), 300 ms after a fire
LaserHide ==
  /\ UNCHANGED dragVars
  /\ \E h \in timeouts :
       /\ timeouts' = timeouts \ {h}
       /\ laserVisible' = FALSE
  /\ ev' = NoEv
  /\ UNCHANGED <<gameStarted, gameOver, score, timeLeft, bubbles, gunPosition,
                 tapStartTime, tapStartX, bubbleIdRef, timerRef,
                 bubbleTimerRef, laserTimeoutRef, intervals, moveInterval,
                 touch, ticks, culled, lastX>>

(* ------------------------- the game area's handlers -------------------- *)
\* The props of the game area in a render: panResponder.panHandlers spread
\* first, then { onStartShouldSetResponder, onResponderRelease: handleTap }
\* spread over them, both only while the round runs.  The second spread
\* replaces the onResponderRelease of the panHandlers, the one that would
\* call onPanResponderRelease.
gameAreaGrant(gs, go) ==
  IF Running(gs, go) THEN "onPanResponderGrant" ELSE "none"
gameAreaMove(gs, go) ==
  IF Running(gs, go) THEN "onPanResponderMove" ELSE "none"
gameAreaRelease_NotOverridden(gs, go) ==
  IF Running(gs, go) THEN "onPanResponderRelease" ELSE "none"
gameAreaRelease(gs, go) ==
  IF Running(gs, go) THEN "handleTap" ELSE "none"

\* handleTap as closed over the gameStarted, gameOver of a render: it returns
\* at once if (!gameStarted || gameOver); TRUE iff it goes on to fireLaser.
handleTap(gs, go) == Running(gs, go)

\* tapDuration < TAP_MAX_DURATION && moveDistance < TAP_MAX_MOVEMENT
isTap(tapDuration, moveDistance) ==
  tapDuration < TAP_MAX_DURATION /\ moveDistance < TAP_MAX_MOVEMENT

\* onPanResponderRelease of the PanResponder created in the first render and
\* kept in a ref: the handleTap it calls is the first render's, closed over
\* gameStarted = false and gameOver = false.  TRUE iff fireLaser is called.
onPanResponderRelease(now, moveX) ==
  /\ isTap(now - tapStartTime, Abs(moveX - tapStartX))
  /\ handleTap(FALSE, FALSE)

fireLaser_StaleGun ==
  /\ laserVisible' = TRUE
  /\ bubbles' = checkHits(bubbles,
                          gunCenterX(screenWidth \div 2 - gunWidth \div 2))
  /\ score' = score
               + hitCount(bubbles,
                          gunCenterX(screenWidth \div 2 - gunWidth \div 2))
  /\ LET cleared == timeouts \ {laserTimeoutRef}
         h == NewHandle(cleared)
     IN  /\ laserTimeoutRef' = h
         /\ timeouts' = cleared \cup {h}

fireLaser_NoClear ==
  /\ laserVisible' = TRUE
  /\ bubbles' = checkHits(bubbles, gunCenterX(gunPosition))
  /\ score' = score + hitCount(bubbles, gunCenterX(gunPosition))
  /\ LET h == NewHandle(timeouts)
     IN  /\ laserTimeoutRef' = h
         /\ timeouts' = timeouts \cup {h}

\* clearTimeout(laserTimeoutRef.current) first, then the new setTimeout
fireLaser ==
  /\ laserVisible' = TRUE
  /\ bubbles' = checkHits(bubbles, gunCenterX(gunPosition))
  /\ score' = score + hitCount(bubbles, gunCenterX(gunPosition))
  /\ LET cleared == timeouts \ {laserTimeoutRef}
         h == NewHandle(cleared)
     IN  /\ laserTimeoutRef' = h
         /\ timeouts' = cleared \cup {h}

(* ----------------------------- gesture events -------------------------- *)
GestureStart ==
  /\ UNCHANGED dragVars
  /\ touch = "up"
  /\ \E x0 \in GestureXs, now \in GrantTimes :
       IF gameAreaGrant(gameStarted, gameOver) = "onPanResponderGrant"
       THEN /\ tapStartTime' = now
            /\ tapStartX' = x0
            /\ gunPosition' = clampGun(x0 - gunWidth \div 2)
            /\ touch' = "responder"
            /\ lastX' = x0
       ELSE /\ touch' = "down"
            /\ UNCHANGED <<tapStartTime, tapStartX, gunPosition, lastX>>
  /\ ev' = NoEv
  /\ UNCHANGED <<gameStarted, gameOver, score, timeLeft, bubbles,
                 laserVisible, bubbleIdRef, timerRef, bubbleTimerRef,
                 laserTimeoutRef, intervals, timeouts, moveInterval, ticks,
                 culled>>

GestureMove ==
  /\ UNCHANGED dragVars
  /\ touch # "up"
  /\ \E moveX \in GestureXs :
       IF touch = "responder"
          /\ gameAreaMove(gameStarted, gameOver) = "onPanResponderMove"
       THEN /\ gunPosition' = clampGun(moveX - gunWidth \div 2)
            /\ lastX' = moveX
       ELSE UNCHANGED <<gunPosition, lastX>>
  /\ ev' = NoEv
  /\ UNCHANGED <<gameStarted, gameOver, score, timeLeft, bubbles,
                 laserVisible, tapStartTime, tapStartX, bubbleIdRef, timerRef,
                 bubbleTimerRef, laserTimeoutRef, intervals, timeouts,
                 moveInterval, touch, ticks, culled>>

\* The end of a gesture, tapDuration ms after its start and moveDistance px
\* from it.
GestureEnd ==
  /\ UNCHANGED dragVars
  /\ touch # "up"
  /\ Cardinality(timeouts \ {laserTimeoutRef}) < MaxHandles
  /\ \E tapDuration \in Durations, moveDistance \in EndOffsets :
       LET kind == IF isTap(tapDuration, moveDistance)
                   THEN "tapEnd" ELSE "dragEnd"
           target == IF touch = "responder"
                     THEN gameAreaRelease(gameStarted, gameOver) ELSE "none"
           fire == CASE target = "handleTap" ->
                          handleTap(gameStarted, gameOver)
                     [] target = "onPanResponderRelease" ->
                          onPanResponderRelease(tapStartTime + tapDuration,
                                                tapStartX + moveDistance)
                     [] OTHER -> FALSE
       IN  IF fire
           THEN /\ fireLaser
                /\ ev' = [kind |-> kind, fires |-> 1,
                          hits |-> Len(bubbles) - Len(bubbles')]
           ELSE /\ ev' = GestureEv(kind)
                /\ UNCHANGED <<laserVisible, bubbles, score, laserTimeoutRef,
                               timeouts>>
  /\ touch' = "up"
  /\ UNCHANGED <<gameStarted, gameOver, timeLeft, gunPosition, tapStartTime,
                 tapStartX, bubbleIdRef, timerRef, bubbleTimerRef, intervals,
                 moveInterval, ticks, culled, lastX>>

(* --------------------------- specifications ---------------------------- *)
Next ==
  \/ PressStart
  \/ PressPlayAgain
  \/ SpawnTick
  \/ CountdownTick
  \/ MotionTick
  \/ LaserHide
  \/ GestureStart
  \/ GestureMove
  \/ GestureEnd

Spec == Init /\ [][Next]_vars

\* A timeout set with setTimeout and not cleared runs its callback.
SpecFair == Spec /\ WF_vars(LaserHide)

\* A start request that reaches startGame while the round is running.
StartWhileRunning ==
  /\ UNCHANGED dragVars
  /\ Running(gameStarted, gameOver)
  /\ touch = "up"
  /\ Cardinality(intervals) + 2 <= MaxHandles
  /\ startGame

\* The program with start requests delivered whatever is rendered.
NextApi ==
  \/ Next
  \/ StartWhileRunning

SpecApi == Init /\ [][NextApi]_vars

(* ------------------------ the simple-drag screen ----------------------- *)
\* The screen variant whose gun view carries the PanResponder's handlers in
\* every render and whose only writer of gunPosition is the move handler.
\* gestureState.dx of a move: the displacement since the gesture began.
DragDxs == {0 - 150, 0 - 60, 0 - 40, 0 - 20, 0 - 10, 10, 20, 40, 60, 150}

\* The state cells and refs the drag handlers neither read nor write.
roundVars == <<gameStarted, gameOver, score, timeLeft, bubbles, laserVisible,
               tapStartTime, tapStartX, bubbleIdRef, timerRef, bubbleTimerRef,
               laserTimeoutRef, intervals, timeouts, moveInterval, ticks,
               culled, lastX, ev>>

\* The gunPosition the handlers of the PanResponder read: the PanResponder is
\* created in the first render and kept in a ref, so its handlers are closed
\* over the gunPosition of that render, the initial value of the state cell.
panResponderGunPosition == screenWidth \div 2 - gunWidth \div 2

\* onPanResponderGrant: gunInitialX.current = gunPosition
DragGrant ==
  /\ touch = "up"
  /\ gunInitialX' = panResponderGunPosition
  /\ touch' = "responder"
  /\ dragFrom' = gunPosition
  /\ dragDx' = 0
  /\ dragEv' = "grant"
  /\ UNCHANGED <<gunPosition, roundVars>>

\* onPanResponderMove: newX = gunInitialX.current + gestureState.dx, clamped
DragMove ==
  /\ touch = "responder"
  /\ \E dx \in DragDxs :
       /\ gunPosition' = clampGun(gunInitialX + dx)
       /\ dragDx' = dx
  /\ dragEv' = "move"
  /\ UNCHANGED <<gunInitialX, dragFrom, touch, roundVars>>

\* onPanResponderRelease: () => {}
DragRelease ==
  /\ touch = "responder"
  /\ touch' = "up"
  /\ dragEv' = "release"
  /\ UNCHANGED <<gunPosition, gunInitialX, dragFrom, dragDx, roundVars>>

NextDrag ==
  \/ DragGrant
  \/ DragMove
  \/ DragRelease

SpecDrag == Init /\ [][NextDrag]_vars

(* ------------------------------- claims -------------------------------- *)
Idle == ~gameStarted /\ ~gameOver
IsRunning == gameStarted /\ ~gameOver

\* C1: after startGame the round is still running after each of the first
\* 119 countdown callbacks, the 120th makes it game over with timeLeft = 0,
\* and while it is game over no countdown callback runs and no bubble is
\* added.
C1_RoundLifecycle ==
  /\ [](gameStarted =>
          /\ (ticks < InitialTime => ~gameOver)
          /\ (ticks >= InitialTime =>
                gameOver /\ timeLeft = 0 /\ ticks = InitialTime))
  /\ [][gameOver =>
          /\ ticks' = ticks
          /\ Len(bubbles') <= Len(bubbles)
          /\ bubbleIdRef' <= bubbleIdRef]_vars

C1_Witness ==
  gameOver /\ ticks = InitialTime /\ timeLeft = 0 /\ Len(bubbles) = 1

\* C2: a fire removes exactly the bubbles whose centre x is within one radius
\* of the laser x (the centre of the gun), whatever their y, keeps the other
\* bubbles as they are and in order, and adds the number of removed bubbles
\* to the score.
C2_FireRemovesExactlyHits ==
  [][ev'.fires = 1 =>
       LET laserX == gunPosition + gunWidth \div 2
           d(b) == (b.x + b.radius) - laserX
           missed(b) == ~(d(b) <= b.radius /\ 0 - d(b) <= b.radius)
           hits == {i \in 1..Len(bubbles) : ~missed(bubbles[i])}
       IN  /\ bubbles' = SelectSeq(bubbles, missed)
           /\ score' = score + Cardinality(hits)]_vars

C2_Witness ==
  ev.fires = 1 /\ ev.hits = 1 /\ Len(bubbles) = 1 /\ score = 1

\* C3 (as claimed): the end of a gesture that lasted 200 ms or more, or moved
\* 10 px or more, fires no laser.
C3_DragDoesNotFire ==
  ev.kind = "dragEnd" => ev.fires = 0

\* C4: while the round runs, the end of a gesture shorter than 200 ms that
\* moved less than 10 px fires the laser exactly once.
C4_TapFiresOnce ==
  (ev.kind = "tapEnd" /\ IsRunning) => ev.fires = 1

C4_Witness ==
  ev.kind = "tapEnd" /\ IsRunning /\ ev.fires = 1 /\ ev.hits = 2

\* C5: a gesture event delivered while the round is not running changes
\* neither the score nor the bubbles nor the laser flag, and the score does
\* not change while the game is over.
C5_FireOnlyWhileRunning ==
  [][/\ (~IsRunning /\ (touch' # touch \/ ev'.kind # "none")) =>
          /\ score' = score
          /\ bubbles' = bubbles
          /\ laserVisible' = laserVisible
          /\ ev'.fires = 0
     /\ (gameOver /\ gameOver') => score' = score]_vars

C5_Witness ==
  gameOver /\ ev.kind = "tapEnd" /\ score > 0 /\ Len(bubbles) > 0

\* C6: the gun position is always within [0, screenWidth - gunWidth].
C6_GunClamped ==
  0 <= gunPosition /\ gunPosition <= screenWidth - gunWidth

C6_Witness ==
  /\ tapStartX > screenWidth
  /\ gunPosition = screenWidth - gunWidth
  /\ touch = "responder"

\* C7: while the game is over no spawn, countdown or motion timer is active,
\* and the bubbles and timeLeft stay as they are.
C7_OverStopsTimers ==
  /\ [](gameOver => intervals = {} /\ ~moveInterval)
  /\ [][(gameOver /\ gameOver') =>
          bubbles' = bubbles /\ timeLeft' = timeLeft]_vars

C7_Witness ==
  gameOver /\ Len(bubbles) = 2 /\ intervals = {} /\ ~moveInterval

\* C8 (as claimed): whatever start and reset requests arrive, a start while
\* the round runs included, at most one spawn timer and at most one countdown
\* timer are active, and none is left once the game is over or reset.
C8_OneTimerOfEachKind ==
  /\ Cardinality({t \in intervals : t.kind = "spawn"}) <= 1
  /\ Cardinality({t \in intervals : t.kind = "countdown"}) <= 1
  /\ ~IsRunning => intervals = {}

\* C9 (as claimed): between a reset and the next start no timer callback is
\* pending: no interval and no laser-hide timeout.
C9_NothingPendingWhenIdle ==
  Idle => (intervals = {} /\ ~moveInterval /\ timeouts = {})

\* C10: whenever the round is idle (before the first start, and from a reset
\* to the next start) the bubbles are empty, the score is 0, timeLeft is 120
\* and the laser is hidden; and the game over state is left only to idle.
C10_ResetClearsState ==
  /\ [](Idle => /\ bubbles = <<>>
                /\ score = 0
                /\ timeLeft = InitialTime
                /\ laserVisible = FALSE)
  /\ [][(gameOver /\ ~gameOver') => Idle']_vars

C10_Witness ==
  Idle /\ ticks = InitialTime /\ timeouts # {} /\ ev.kind = "none"

GunCentre == screenWidth \div 2 - gunWidth \div 2

\* C11 (as claimed): every step that starts a round leaves the gun at the
\* horizontal centre of the screen.
C11_StartCentresGun ==
  [][(~gameStarted /\ gameStarted') => gunPosition' = GunCentre]_vars

\* C12: the step that leaves game over (the reset) does not change the gun
\* position.
C12_ResetKeepsGun ==
  [][(gameOver /\ ~gameOver') => gunPosition' = gunPosition]_vars

C12_Witness ==
  Idle /\ ticks = InitialTime /\ gunPosition = 0 /\ lastX < 0

\* C13: a motion tick moves every bubble up by exactly 2, keeps its id, x and
\* radius, and drops exactly the bubbles whose new y is <= -60; every live
\* bubble has -60 < y <= screenHeight - 100.
C13_MotionStep ==
  /\ [](\A i \in 1..Len(bubbles) :
          /\ bubbles[i].y > 0 - 60
          /\ bubbles[i].y <= screenHeight - 100)
  /\ [][culled' >= culled /\ (bubbles' # bubbles \/ culled' # culled)
          /\ bubbleIdRef' = bubbleIdRef /\ touch' = touch
          /\ gameStarted' = gameStarted /\ gameOver' = gameOver =>
        LET moved == [i \in 1..Len(bubbles) |->
                        [id |-> bubbles[i].id, x |-> bubbles[i].x,
                         y |-> bubbles[i].y - 2,
                         radius |-> bubbles[i].radius]]
            stays(b) == ~(b.y <= 0 - 60)
        IN  bubbles' = SelectSeq(moved, stays)]_vars

C13_Witness ==
  /\ IsRunning /\ score = 0 /\ culled = 1
  /\ Len(bubbles) = 1
  /\ bubbles[1].id = 2
  /\ bubbles[1].y = screenHeight - 102

\* C14 (as claimed): a countdown callback decrements timeLeft by 1 and keeps
\* the round running whenever the result is >= 0, and ends the round only when
\* the decrement would take timeLeft below 0.
C14_EndsBelowZero ==
  [][(IsRunning /\ ticks' = ticks + 1) =>
       /\ (timeLeft - 1 >= 0 => timeLeft' = timeLeft - 1 /\ IsRunning')
       /\ (gameOver' => timeLeft - 1 < 0)]_vars

\* C14 (amended): a countdown callback that finds timeLeft > 1 decrements it
\* by 1 and keeps the round running with its timers; the callback that finds
\* timeLeft <= 1 sets it to 0, stops the spawn and countdown timers and makes
\* the game over.
C14_EndsAtOne ==
  [][(IsRunning /\ ticks' = ticks + 1) =>
       IF timeLeft > 1
       THEN /\ timeLeft' = timeLeft - 1
            /\ IsRunning'
            /\ intervals' = intervals
       ELSE /\ timeLeft' = 0
            /\ gameOver' /\ gameStarted'
            /\ intervals' = {}]_vars

C14_Witness ==
  /\ gameOver /\ timeLeft = 0 /\ ticks = InitialTime
  /\ intervals = {} /\ touch = "responder" /\ score = 2

\* C15: a fire shows the laser, cancels the pending laser-hide timeout and
\* sets a new one: at most one is pending, it is the one of the latest fire
\* whenever the laser is visible, and a visible laser is eventually hidden.
C15_LaserFlash ==
  /\ [](/\ Cardinality(timeouts) <= 1
        /\ laserVisible => timeouts = {laserTimeoutRef})
  /\ [][ev'.fires = 1 =>
          /\ laserVisible'
          /\ timeouts' = {laserTimeoutRef'}
          /\ laserTimeoutRef' \notin (timeouts \ {laserTimeoutRef})]_vars
  /\ (laserVisible ~> ~laserVisible)

C15_Witness ==
  IsRunning /\ laserVisible /\ ev.fires = 1 /\ ev.hits = 1 /\ score = 2

\* C16: the round only moves Idle -> Running -> GameOver -> Idle: no step goes
\* from Idle to GameOver, from GameOver to Running or from Running to Idle,
\* and gameOver never holds without gameStarted.
C16_RoundCycle ==
  /\ [](gameOver => gameStarted)
  /\ [][/\ ~(Idle /\ gameOver')
        /\ ~(gameOver /\ IsRunning')
        /\ ~(IsRunning /\ Idle')]_vars

C16_Witness ==
  /\ IsRunning /\ ticks = 1 /\ bubbles = <<>>
  /\ ~laserVisible /\ timeouts # {}

\* C17: the ids of the live bubbles are pairwise distinct and increase along
\* the list; each spawned bubble takes the next id, larger than every id given
\* before in the round; a start sets the next id to 1, so the first bubble of
\* every round has id 1.
C17_BubbleIds ==
  /\ [](/\ \A i, j \in 1..Len(bubbles) :
             i < j => bubbles[i].id < bubbles[j].id
        /\ \A i \in 1..Len(bubbles) :
             1 <= bubbles[i].id /\ bubbles[i].id < bubbleIdRef)
  /\ [][/\ Len(bubbles') > Len(bubbles) =>
             /\ bubbles' = Append(bubbles, bubbles'[Len(bubbles')])
             /\ bubbles'[Len(bubbles')].id = bubbleIdRef
             /\ bubbleIdRef' = bubbleIdRef + 1
        /\ (~gameStarted /\ gameStarted') =>
             bubbleIdRef' = 1 /\ bubbles' = <<>>
        /\ (gameStarted /\ gameStarted') => bubbleIdRef' >= bubbleIdRef]_vars

C17_Witness ==
  /\ IsRunning /\ timeouts # {} /\ ~laserVisible
  /\ Len(bubbles) = 1 /\ bubbles[1].id = 1 /\ bubbleIdRef = 2

\* C18: a fire tests the bubbles against the gun centre given by the latest
\* gesture start or move handled before it: with x the x of that event, the
\* laser x is clamp(x - gunWidth/2, 0, screenWidth - gunWidth) + gunWidth/2.
C18_FireUsesLatestGun ==
  /\ [](touch = "responder" =>
          gunPosition =
            Max(0, Min(lastX - gunWidth \div 2, screenWidth - gunWidth)))
  /\ [][ev'.fires = 1 =>
          LET laserX == Max(0, Min(lastX - gunWidth \div 2,
                                   screenWidth - gunWidth)) + gunWidth \div 2
              near(b) == /\ (b.x + b.radius) - laserX <= b.radius
                         /\ laserX - (b.x + b.radius) <= b.radius
              far(b) == ~near(b)
          IN  /\ touch = "responder"
              /\ bubbles' = SelectSeq(bubbles, far)
              /\ score' = score + Len(SelectSeq(bubbles, near))]_vars

C18_Witness ==
  /\ ev.fires = 1 /\ ev.hits = 1
  /\ tapStartX = HalfWidth + 20 /\ lastX < 0 /\ gunPosition = 0
  /\ Len(bubbles) = 1 /\ bubbles[1].x = 120

\* C19: in a round, the number of bubbles spawned since the start (next id
\* minus 1) is the score plus the live bubbles plus the bubbles culled off the
\* top; the score never decreases in a round and never exceeds the number of
\* bubbles spawned in it.
C19_BubbleAccounting ==
  /\ [](gameStarted =>
          /\ bubbleIdRef - 1 = score + Len(bubbles) + culled
          /\ score <= bubbleIdRef - 1)
  /\ [][(gameStarted /\ gameStarted') => score' >= score]_vars

C19_Witness ==
  /\ gameStarted /\ culled = 1 /\ score = 1
  /\ bubbleIdRef = 3 /\ bubbles = <<>>

\* C20: timeLeft is always in 0..120, it is 0 exactly when the game is over,
\* and it is between 1 and 120 while the round runs.
C20_TimeLeftRange ==
  /\ timeLeft \in 0..InitialTime
  /\ timeLeft = 0 <=> gameOver
  /\ IsRunning => timeLeft \in 1..InitialTime

C20_Witness ==
  IsRunning /\ timeLeft = 1 /\ ticks = InitialTime - 1

\* C21 (as claimed): on the simple-drag screen a move with displacement dx
\* puts the gun at the position it had when that drag began plus dx, clamped
\* to [0, screenWidth - gunWidth], in the second and later drags too.
C21_DragFromWhereItWas ==
  [][dragEv' = "move" =>
       gunPosition' =
         Max(0, Min(dragFrom' + dragDx', screenWidth - gunWidth))]_vars

TypeOK ==
  /\ gameStarted \in BOOLEAN /\ gameOver \in BOOLEAN
  /\ score \in Nat /\ timeLeft \in Int
  /\ touch \in {"up", "down", "responder"}
====
